---------------------------- MODULE Spec2Model ----------------------------
(***************************************************************************)
(* A model of package mesh (src/pkg/mesh/mesh.go): a handle Ts that runs a *)
(* block of shell commands through a shell under a timeout and keeps the   *)
(* captured stdout, stderr and exit code.                                  *)
(*                                                                         *)
(* Text that the code parses, formats or trims (environment entries,       *)
(* captured output, error messages) is a sequence of one-character         *)
(* strings, so that SplitN, Sprintf, TrimSpace and Duration.String are     *)
(* computed and not assumed.  Text that the code only stores and compares  *)
(* with "" (Cmd, Shell) is a TLA+ string.  Durations are whole seconds.    *)
(*                                                                         *)
(* Go values with reference semantics are kept in heaps: cfgs holds the    *)
(* Config objects, heap holds the backing arrays of the []string slices,   *)
(* handles holds the Ts objects.                                           *)
(***************************************************************************)
EXTENDS Integers, Sequences, FiniteSets, TLC

VARIABLES
    cfgs,      \* heap of Config objects: sequence of [Cmd, Shell, Timeout, Env]
    heap,      \* backing arrays of []string slices: array id -> sequence of entries
    handles,   \* heap of Ts objects: sequence of [Cfg, stdout, stderr, exitCode]
    ret,       \* the slice the caller holds from its last GetEnv (0: none)
    ex,        \* per calling thread: the position and locals of its Exec call
    runs,      \* per handle: how many Exec calls passed the guard (history)
    call       \* the caller's last completed API call and its arguments

vars == <<cfgs, heap, handles, ret, ex, runs, call>>

-----------------------------------------------------------------------------
(* Bounds of the model *)

MaxHandles == 2
MaxConfigs == 2
MaxEnvLen == 3
MaxRuns == 2

-----------------------------------------------------------------------------
(* Text helpers *)

SeqMin(S) == CHOOSE x \in S : \A y \in S : x <= y

\* strings.SplitN(kv, "=", 2): one part when kv holds no "=", otherwise the
\* text before the first "=" and everything after it.
SplitN2(kv) ==
    LET eqs == {i \in 1..Len(kv) : kv[i] = "="}
    IN  IF eqs = {} THEN <<kv>>
        ELSE LET i == SeqMin(eqs)
             IN  <<SubSeq(kv, 1, i - 1), SubSeq(kv, i + 1, Len(kv))>>

\* fmt.Sprintf("%s=%s", k, v)
SprintfKV(k, v) == k \o <<"=">> \o v

WhiteSpace == {" ", "\t", "\n", "\r"}

\* strings.TrimSpace
TrimSpace(s) ==
    LET keep == {i \in 1..Len(s) : s[i] \notin WhiteSpace}
    IN  IF keep = {} THEN <<>>
        ELSE SubSeq(s, SeqMin(keep), CHOOSE j \in keep : \A k \in keep : k <= j)

Digit(d) == <<"0", "1", "2", "3", "4", "5", "6", "7", "8", "9">>[d + 1]

\* decimal text of a natural number (strconv / fmt %d)
RECURSIVE Itoa(_)
Itoa(n) == IF n < 10 THEN <<Digit(n)>> ELSE Itoa(n \div 10) \o <<Digit(n % 10)>>

\* time.Duration.String() for a duration of d whole seconds, d >= 0
DurationString(d) ==
    LET h == d \div 3600
        m == (d % 3600) \div 60
        s == d % 60
    IN  IF h > 0 THEN Itoa(h) \o <<"h">> \o Itoa(m) \o <<"m">> \o Itoa(s) \o <<"s">>
        ELSE IF m > 0 THEN Itoa(m) \o <<"m">> \o Itoa(s) \o <<"s">>
        ELSE Itoa(s) \o <<"s">>

\* s occurs in t as a contiguous substring (strings.Contains)
Contains(t, s) ==
    \E i \in 1..(Len(t) - Len(s) + 1) : SubSeq(t, i, i + Len(s) - 1) = s

\* the set of elements of a sequence
Range(s) == {s[i] : i \in 1..Len(s)}

\* all orders in which a range over a Go map may visit the key set K
Orders(K) ==
    {o \in [1..Cardinality(K) -> K] : \A k \in K : \E i \in DOMAIN o : o[i] = k}


-----------------------------------------------------------------------------
(* The heap of backing arrays *)

\* the smallest array id not in use
Alloc(hp) == SeqMin((1..(Cardinality(DOMAIN hp) + 1)) \ DOMAIN hp)

\* the arrays still referenced by a Config of cf or by the caller's slice r;
\* the rest is garbage and is collected
GC(hp, cf, r) ==
    LET live == {cf[i].Env : i \in DOMAIN cf} \cup ({r} \ {0})
    IN  [a \in (DOMAIN hp) \cap live |-> hp[a]]

\* the Config objects other than c, as a sequence of what they reference
Others(cf, c) == SelectSeq([i \in DOMAIN cf |-> IF i = c THEN [Env |-> 0] ELSE cf[i]],
                           LAMBDA x : x.Env # 0)

\* t.Cfg.Env read through the handle: the entries of the stored environment
StoredEnv(h) == heap[cfgs[handles[h].Cfg].Env]

-----------------------------------------------------------------------------
(* Inputs *)

DefaultTimeout == 60

\* os.Environ() of the calling process
OsEnviron == << <<"P", "=", "1">> >>

\* a config argument of New: absent, nil, or a pointer to a Config object
NoArg == [kind |-> "absent", id |-> 0]
NilArg == [kind |-> "nil", id |-> 0]
PtrArg(c) == [kind |-> "ptr", id |-> c]

CmdStrs == {"", "a"}

\* Config literals a caller builds before New (resolver specification)
UserConfigs ==
    {[Cmd |-> c, Shell |-> "zsh", Timeout |-> 1, Env |-> e] :
        c \in {"", "b"}, e \in { << <<"A", "=", "1">> >> }}

\* overlay maps passed to SetEnv in the resolver specification
CfgOverlays == {[k \in {<<"A">>} |-> <<"9">>]}

\* overlay maps passed to SetEnv in the snapshot specification
SmallOverlays ==
    {[k \in {<<"A">>} |-> <<"9">>], [k \in {<<"B">>} |-> <<"2">>]}

\* starting environments of the environment specification: well-formed
\* entries, a malformed entry, an empty key, a key held twice, values with "="
BaseEnvs ==
    { <<>>,
      << <<"A", "=", "1">>, <<"B", "=", "2">> >>,
      << <<"A", "=", "1">>, <<"j">>, <<"A", "=", "2">> >>,
      << <<"A", "=", "=", "9">>, <<"=", "x">> >> }

OverlayKeys == {<<"A">>, <<"B">>, <<"A", "=">>, <<>>}
OverlayVals == {<<"9">>}
MaxOverlay == 2

\* overlay maps of the environment specification: every map of at most
\* MaxOverlay keys
Overlays ==
    UNION {[K -> OverlayVals] :
              K \in {S \in SUBSET OverlayKeys : Cardinality(S) <= MaxOverlay}}

\* values a caller writes into the slice GetEnv returned
WriteVals == {<<"Z", "=", "0">>}

-----------------------------------------------------------------------------
(* Configuration resolver *)

\* NewConfig: the default configuration, its Env slice backed by array a
NewConfig(a) ==
    [Cmd |-> "", Shell |-> "bash", Timeout |-> DefaultTimeout, Env |-> a]

ResolveCmd_overwrite(cfgCmd, cmdStr) == cmdStr

\* New, lines 45-47: cmdStr fills in an empty Cmd only
ResolveCmd(cfgCmd, cmdStr) == IF cfgCmd = "" THEN cmdStr ELSE cfgCmd

\* a Ts as New returns it: zero-valued result fields
NewTs(c) == [Cfg |-> c, stdout |-> <<>>, stderr |-> <<>>, exitCode |-> 0]

\* the locals of a thread that is in no Exec call and has made none.  Beside
\* the locals of Exec the record keeps the state of the subprocess (proc,
\* code, what it wrote, held: whether descendants of the shell still hold the
\* write ends of the output pipes) and two history fields: entry, the result
\* fields of the handle when the call began, and early, whether the shell
\* terminated while the deadline had not fired.
Idle ==
    [pc |-> "idle", h |-> 0, ran |-> FALSE, shell |-> "", ctx |-> "none",
     proc |-> "none", code |-> 0, out |-> <<>>, errb |-> <<>>, err |-> <<>>,
     held |-> FALSE, early |-> FALSE, entry |-> NewTs(0)]

AllIdle == \A th \in DOMAIN ex : ex[th].pc \in {"idle", "done"}

\* a caller builds a Config literal, its Env slice in a fresh array
MakeConfig(c) ==
    /\ AllIdle
    /\ Len(cfgs) < MaxConfigs
    /\ LET a == Alloc(heap)
       IN  /\ cfgs' = Append(cfgs, [c EXCEPT !.Env = a])
           /\ heap' = (a :> c.Env) @@ heap
    /\ call' = [op |-> "MakeConfig"]
    /\ UNCHANGED <<handles, ret, ex, runs>>

New_copyConfig(cmdStr, arg) ==
    /\ AllIdle
    /\ Len(handles) < MaxHandles
    /\ arg.kind = "ptr" => arg.id \in DOMAIN cfgs
    /\ Len(cfgs) < MaxConfigs
    /\ LET a == Alloc(heap)
           given == arg.kind = "ptr"
           c == Len(cfgs) + 1
           cfg == IF given THEN cfgs[arg.id] ELSE NewConfig(a)
           cfg2 == [cfg EXCEPT !.Cmd = ResolveCmd(cfg.Cmd, cmdStr)]
       IN  /\ cfgs' = Append(cfgs, cfg2)
           /\ heap' = IF given THEN heap ELSE (a :> OsEnviron) @@ heap
           /\ handles' = Append(handles, NewTs(c))
           /\ runs' = Append(runs, 0)
           /\ call' = [op |-> "New", cmdStr |-> cmdStr, arg |-> arg,
                       argCmd |-> IF given THEN cfgs[arg.id].Cmd ELSE "",
                       h |-> Len(handles) + 1]
    /\ UNCHANGED <<ret, ex>>

\* New(cmdStr, config...)
New(cmdStr, arg) ==
    /\ AllIdle
    /\ Len(handles) < MaxHandles
    /\ IF arg.kind = "ptr" THEN arg.id \in DOMAIN cfgs ELSE Len(cfgs) < MaxConfigs
    /\ LET a == Alloc(heap)
           given == arg.kind = "ptr"   \* len(config) > 0 && config[0] != nil
           c == IF given THEN arg.id ELSE Len(cfgs) + 1
           cfg == IF given THEN cfgs[arg.id] ELSE NewConfig(a)
           cfg2 == [cfg EXCEPT !.Cmd = ResolveCmd(cfg.Cmd, cmdStr)]
       IN  /\ cfgs' = IF given THEN [cfgs EXCEPT ![c] = cfg2] ELSE Append(cfgs, cfg2)
           /\ heap' = IF given THEN heap ELSE (a :> OsEnviron) @@ heap
           /\ handles' = Append(handles, NewTs(c))
           /\ runs' = Append(runs, 0)
           /\ call' = [op |-> "New", cmdStr |-> cmdStr, arg |-> arg,
                       argCmd |-> IF given THEN cfgs[arg.id].Cmd ELSE "",
                       h |-> Len(handles) + 1]
    /\ UNCHANGED <<ret, ex>>

KeptEntries_keepAll(env, envVars) == env

\* SetEnv, lines 61-71: the entries of the old environment that survive
KeptEntries(env, envVars) ==
    LET keep(kv) == /\ Len(SplitN2(kv)) = 2
                    /\ SplitN2(kv)[1] \notin DOMAIN envVars
    IN  SelectSeq(env, keep)

\* SetEnv, lines 72-74: the overlay entries, in the order the map is ranged
AddedEntries(envVars, order) ==
    [i \in DOMAIN order |-> SprintfKV(order[i], envVars[order[i]])]

\* SetEnv(envVars) on handle h, the map ranged in the given order
SetEnv(h, envVars, order) ==
    /\ AllIdle
    /\ h \in DOMAIN handles
    /\ LET c == handles[h].Cfg
           newEnv == KeptEntries(StoredEnv(h), envVars) \o AddedEntries(envVars, order)
           rest == GC(heap, Others(cfgs, c), ret)   \* the old array is dropped
           a == Alloc(rest)
       IN  /\ Len(newEnv) <= MaxEnvLen
           /\ cfgs' = [cfgs EXCEPT ![c].Env = a]
           /\ heap' = (a :> newEnv) @@ rest
           /\ call' = [op |-> "SetEnv", h |-> h, m |-> envVars, base |-> StoredEnv(h),
                       again |-> /\ call.op = "SetEnv"
                                 /\ call.h = h
                                 /\ call.m = envVars]
    /\ UNCHANGED <<handles, ret, ex, runs>>

GetEnvSlice_alias(env, envCopy) == env

\* GetEnv, lines 81-83: the slice returned is the fresh copy
GetEnvSlice(env, envCopy) == envCopy

\* GetEnv() on handle h
GetEnv(h) ==
    /\ AllIdle
    /\ h \in DOMAIN handles
    /\ LET env == cfgs[handles[h].Cfg].Env
           rest == GC(heap, cfgs, 0)   \* the slice of an earlier GetEnv is dropped
           envCopy == Alloc(rest)
           r == GetEnvSlice(env, envCopy)
       IN  /\ ret' = r
           /\ heap' = GC((envCopy :> heap[env]) @@ rest, cfgs, r)
    /\ call' = [op |-> "GetEnv", h |-> h]
    /\ UNCHANGED <<cfgs, handles, ex, runs>>

\* the caller writes v into element i of the slice it got from GetEnv; the
\* call record keeps the stored environments as they were before the first
\* of a run of such writes
CallerWrite(i, v) ==
    /\ AllIdle
    /\ ret # 0
    /\ i \in 1..Len(heap[ret])
    /\ heap' = [heap EXCEPT ![ret][i] = v]
    /\ call' = [op |-> "Write",
                before |-> IF call.op = "Write" THEN call.before
                           ELSE [h \in DOMAIN handles |-> StoredEnv(h)]]
    /\ UNCHANGED <<cfgs, handles, ret, ex, runs>>

Threads == {1, 2}

-----------------------------------------------------------------------------
(* Execution engine: Exec, lines 122-162.  cmd.Run() is the subprocess and *)
(* the deadline timer racing; the steps after it are the writes of lines   *)
(* 144-160 one by one, between which the timer may still fire.             *)

\* what the subprocess may write and how it may exit
ExitCodes == {0, 7}
OutPool == {<<>>, <<"X">>, <<" ", "X", "\n">>}

\* err.Error() of the errors cmd.Run() returns; <<>> stands for a nil error
ErrDeadline ==
    <<"c", "o", "n", "t", "e", "x", "t", " ", "d", "e", "a", "d", "l", "i", "n", "e",
      " ", "e", "x", "c", "e", "e", "d", "e", "d">>
ErrStart ==
    <<"p", "i", "p", "e", "2", ":", " ", "t", "o", "o", " ", "m", "a", "n", "y", " ",
      "o", "p", "e", "n", " ", "f", "i", "l", "e", "s">>
ErrKilled ==
    <<"s", "i", "g", "n", "a", "l", ":", " ", "k", "i", "l", "l", "e", "d">>
ErrExit(code) ==
    <<"e", "x", "i", "t", " ", "s", "t", "a", "t", "u", "s", " ">> \o Itoa(code)

TimeoutPrefix ==
    <<"E", "r", "r", "o", "r", ":", " ", "C", "o", "m", "m", "a", "n", "d", " ",
      "e", "x", "e", "c", "u", "t", "i", "o", "n", " ", "t", "i", "m", "e", "d", " ",
      "o", "u", "t", " ", "a", "f", "t", "e", "r", " ">>

\* line 158: fmt.Sprintf("Error: Command execution timed out after %s.", timeout)
TimeoutMessage(timeout) == TimeoutPrefix \o DurationString(timeout) \o <<".">>

\* what the subprocess may write to its error stream: nothing, a line, or the
\* very text of line 158
ErrPool == {<<>>, <<"E", "\n">>, TimeoutMessage(DefaultTimeout)}

GuardBlocks_typo(exitCode) == exitCode # 0 /\ exitCode = -1

\* line 123: the re-run guard
GuardBlocks(exitCode) == exitCode # 0 /\ exitCode # -1

StateExitCode_asCode(proc, code) == code

\* cmd.ProcessState.ExitCode(): the exit status of a process that exited, -1
\* for one terminated by a signal
StateExitCode(proc, code) == IF proc = "exited" THEN code ELSE -1

\* the error cmd.Wait() returns for a process that has terminated
WaitErr(proc, code) ==
    IF proc = "exited" THEN (IF code = 0 THEN <<>> ELSE ErrExit(code)) ELSE ErrKilled

TimedOut_keepCode(t, timeout) == [t EXCEPT !.stderr = TimeoutMessage(timeout)]

\* lines 158-159: the timeout outcome
TimedOut(t, timeout) ==
    [t EXCEPT !.stderr = TimeoutMessage(timeout), !.exitCode = -1]

\* lines 122-141: the guard; shell resolution (found: whether exec.LookPath
\* finds the configured shell); the deadline context, already expired for a
\* timeout that is not positive; the command and its buffers
ExecBegin(th, h, found) ==
    /\ ex[th].pc \in {"idle", "done"}
    /\ h \in DOMAIN handles
    /\ GuardBlocks(handles[h].exitCode) \/ runs[h] < MaxRuns
    /\ LET cfg == cfgs[handles[h].Cfg]
       IN  IF GuardBlocks(handles[h].exitCode)
           THEN /\ ex' = [ex EXCEPT ![th] = [Idle EXCEPT !.pc = "done", !.h = h,
                                                          !.entry = handles[h]]]
                /\ UNCHANGED runs
           ELSE /\ ex' = [ex EXCEPT ![th] =
                            [Idle EXCEPT !.pc = "run", !.h = h, !.ran = TRUE,
                                  !.entry = handles[h],
                                  !.shell = IF found THEN cfg.Shell ELSE "sh",
                                  !.ctx = IF cfg.Timeout <= 0 THEN "expired" ELSE "live"]]
                /\ runs' = [runs EXCEPT ![h] = @ + 1]
    /\ call' = [op |-> "Exec", h |-> h]
    /\ UNCHANGED <<cfgs, heap, handles, ret>>

\* cmd.Start() fails: the context is already done, or the process cannot be
\* created; cmd.ProcessState stays nil
StartFail(th) ==
    /\ ex[th].pc = "run" /\ ex[th].proc = "none"
    /\ ex' = [ex EXCEPT ![th].pc = "l144",
                        ![th].err = IF ex[th].ctx = "expired" THEN ErrDeadline ELSE ErrStart]
    /\ UNCHANGED <<cfgs, heap, handles, ret, runs, call>>

\* cmd.Start() spawns the shell
Start(th) ==
    /\ ex[th].pc = "run" /\ ex[th].proc = "none" /\ ex[th].ctx = "live"
    /\ ex' = [ex EXCEPT ![th].proc = "running"]
    /\ UNCHANGED <<cfgs, heap, handles, ret, runs, call>>

\* the shell exits on its own with the given code; out and errb are what the
\* buffers of lines 139-141 hold once the pipes are closed.  Descendants of
\* the shell that inherited the pipes may still hold them open.
ProcExit(th, code, out, errb) ==
    /\ ex[th].pc = "run" /\ ex[th].proc = "running"
    /\ \E held \in BOOLEAN :
          ex' = [ex EXCEPT ![th].proc = "exited", ![th].code = code,
                           ![th].out = out, ![th].errb = errb,
                           ![th].held = held, ![th].early = (ex[th].ctx = "live")]
    /\ UNCHANGED <<cfgs, heap, handles, ret, runs, call>>

\* the shell is terminated by a signal that is not the deadline's
ProcSignal(th, out, errb) ==
    /\ ex[th].pc = "run" /\ ex[th].proc = "running"
    /\ \E held \in BOOLEAN :
          ex' = [ex EXCEPT ![th].proc = "signaled", ![th].out = out, ![th].errb = errb,
                           ![th].held = held, ![th].early = (ex[th].ctx = "live")]
    /\ UNCHANGED <<cfgs, heap, handles, ret, runs, call>>

\* line 132: the timer of context.WithTimeout fires; it can do so until the
\* deferred cancel, that is at any point before line 157 reads ctx.Err()
DeadlineFire(th) ==
    /\ ex[th].pc \in {"run", "l144", "l148", "l154", "l155", "l157"}
    /\ ex[th].ctx = "live"
    /\ ex' = [ex EXCEPT ![th].ctx = "expired"]
    /\ UNCHANGED <<cfgs, heap, handles, ret, runs, call>>

\* exec.CommandContext: the expired context kills the running shell, and
\* only the shell: its descendants live on and may hold the pipes
Kill(th, out, errb) ==
    /\ ex[th].pc = "run" /\ ex[th].proc = "running" /\ ex[th].ctx = "expired"
    /\ \E held \in BOOLEAN :
          ex' = [ex EXCEPT ![th].proc = "killed", ![th].out = out, ![th].errb = errb,
                           ![th].held = held]
    /\ UNCHANGED <<cfgs, heap, handles, ret, runs, call>>

\* the descendants of the shell that held the output pipes exit or close them
DescendantsExit(th) ==
    /\ ex[th].pc = "run" /\ ex[th].proc \in {"exited", "killed", "signaled"}
    /\ ex[th].held
    /\ ex' = [ex EXCEPT ![th].held = FALSE]
    /\ UNCHANGED <<cfgs, heap, handles, ret, runs, call>>

\* line 143: cmd.Run() returns once the shell has terminated and the copies
\* from the output pipes (lines 140-141: the writers are buffers, not files)
\* have reached end of file
WaitReturn(th) ==
    /\ ex[th].pc = "run" /\ ex[th].proc \in {"exited", "killed", "signaled"}
    /\ ~ex[th].held
    /\ ex' = [ex EXCEPT ![th].pc = "l144",
                        ![th].err = WaitErr(ex[th].proc, ex[th].code)]
    /\ UNCHANGED <<cfgs, heap, handles, ret, runs, call>>

\* lines 144-146
ExecErr(th) ==
    /\ ex[th].pc = "l144"
    /\ handles' = IF ex[th].err # <<>>
                  THEN [handles EXCEPT ![ex[th].h].stderr = ex[th].err]
                  ELSE handles
    /\ ex' = [ex EXCEPT ![th].pc = "l148"]
    /\ UNCHANGED <<cfgs, heap, ret, runs, call>>

\* lines 148-152
ExecCode(th) ==
    /\ ex[th].pc = "l148"
    /\ handles' = [handles EXCEPT ![ex[th].h].exitCode =
                      IF ex[th].proc # "none"
                      THEN StateExitCode(ex[th].proc, ex[th].code)
                      ELSE -1]
    /\ ex' = [ex EXCEPT ![th].pc = "l154"]
    /\ UNCHANGED <<cfgs, heap, ret, runs, call>>

\* line 154
ExecStdout(th) ==
    /\ ex[th].pc = "l154"
    /\ handles' = [handles EXCEPT ![ex[th].h].stdout = TrimSpace(ex[th].out)]
    /\ ex' = [ex EXCEPT ![th].pc = "l155"]
    /\ UNCHANGED <<cfgs, heap, ret, runs, call>>

ExecStderr_skip(th) ==
    /\ ex[th].pc = "l155"
    /\ ex' = [ex EXCEPT ![th].pc = "l157"]
    /\ UNCHANGED <<cfgs, heap, handles, ret, runs, call>>

\* line 155
ExecStderr(th) ==
    /\ ex[th].pc = "l155"
    /\ handles' = [handles EXCEPT ![ex[th].h].stderr = TrimSpace(ex[th].errb)]
    /\ ex' = [ex EXCEPT ![th].pc = "l157"]
    /\ UNCHANGED <<cfgs, heap, ret, runs, call>>

\* lines 157-161: the deadline is inspected, the deferred cancel stops the
\* timer, Exec returns
ExecTimeout(th) ==
    /\ ex[th].pc = "l157"
    /\ handles' = IF ex[th].ctx = "expired"
                  THEN [handles EXCEPT ![ex[th].h] =
                           TimedOut(@, cfgs[handles[ex[th].h].Cfg].Timeout)]
                  ELSE handles
    /\ ex' = [ex EXCEPT ![th].pc = "done"]
    /\ UNCHANGED <<cfgs, heap, ret, runs, call>>

\* accessors, lines 166-176
Stdout(h) == handles[h].stdout
Stderr(h) == handles[h].stderr
ExitCode(h) == handles[h].exitCode

-----------------------------------------------------------------------------
(* One handle and one calling thread: the handle is what New returns for   *)
(* no config, for a caller-built config, and for a zero-valued Config      *)

ExecConfigs ==
    { [Cmd |-> "a", Shell |-> "bash", Timeout |-> DefaultTimeout],
      [Cmd |-> "a", Shell |-> "zsh", Timeout |-> 1],
      [Cmd |-> "a", Shell |-> "", Timeout |-> 0] }

Init ==
    /\ \E c \in ExecConfigs :
          cfgs = << [Cmd |-> c.Cmd, Shell |-> c.Shell, Timeout |-> c.Timeout, Env |-> 1] >>
    /\ heap = (1 :> OsEnviron)
    /\ handles = << NewTs(1) >>
    /\ ret = 0
    /\ ex = [th \in Threads |-> Idle]
    /\ runs = <<0>>
    /\ call = [op |-> "none"]

Next ==
    \/ \E found \in BOOLEAN : ExecBegin(1, 1, found)
    \/ StartFail(1)
    \/ Start(1)
    \/ \E code \in ExitCodes, out \in OutPool, errb \in ErrPool : ProcExit(1, code, out, errb)
    \/ \E out \in OutPool, errb \in ErrPool : ProcSignal(1, out, errb)
    \/ DeadlineFire(1)
    \/ \E out \in OutPool, errb \in ErrPool : Kill(1, out, errb)
    \/ DescendantsExit(1)
    \/ WaitReturn(1)
    \/ ExecErr(1)
    \/ ExecCode(1)
    \/ ExecStdout(1)
    \/ ExecStderr(1)
    \/ ExecTimeout(1)

Spec == Init /\ [][Next]_vars

\* the same handle under sequential Exec and SetEnv calls
NextSeq ==
    \/ Next
    \/ \E m \in CfgOverlays : \E o \in Orders(DOMAIN m) : SetEnv(1, m, o)

SpecSeq == Init /\ [][NextSeq]_vars

\* Fair scheduling of the calling goroutine, the runtime and the kernel: a
\* start that is attempted completes, the deadline timer fires while the
\* context is live, the kill of an expired context is delivered, cmd.Run()
\* returns when it can, and the lines after it are executed.  Nothing makes
\* the shell exit on its own, or its descendants let go of the pipes.
Fairness ==
    /\ WF_vars(StartFail(1) \/ Start(1))
    /\ WF_vars(DeadlineFire(1))
    /\ WF_vars(\E out \in OutPool, errb \in ErrPool : Kill(1, out, errb))
    /\ WF_vars(WaitReturn(1))
    /\ WF_vars(ExecErr(1))
    /\ WF_vars(ExecCode(1))
    /\ WF_vars(ExecStdout(1))
    /\ WF_vars(ExecStderr(1))
    /\ WF_vars(ExecTimeout(1))

SpecFair == Init /\ [][Next]_vars /\ Fairness

-----------------------------------------------------------------------------
(* Two goroutines calling Exec on one handle.  Nothing in Exec synchronises *)
(* them: the steps of the two calls interleave line by line.  A string is   *)
(* a pointer and a length, written one after the other, so two writes of    *)
(* one string field that overlap in time may leave the pointer of one and   *)
(* the length of the other.                                                 *)

\* the string read from the pointer of p and the length of l; "?" stands for
\* a byte read past the end of p
TornString(p, l) == [i \in 1..Len(l) |-> IF i <= Len(p) THEN p[i] ELSE "?"]

\* lines 145, 155, 158: whether the line a call is at stores into t.stderr,
\* and the text it stores
WritesStderr(e) ==
    \/ e.pc = "l144" /\ e.err # <<>>
    \/ e.pc = "l155"
    \/ e.pc = "l157" /\ e.ctx = "expired"

PendingStderr(e, timeout) ==
    CASE e.pc = "l144" -> e.err
      [] e.pc = "l155" -> TrimSpace(e.errb)
      [] e.pc = "l157" -> TimeoutMessage(timeout)

\* the position after the line a call is at
AfterLine(pc) ==
    CASE pc = "l144" -> "l148"
      [] pc = "l154" -> "l155"
      [] pc = "l155" -> "l157"
      [] pc = "l157" -> "done"

\* line 154 executed by two calls at once, the store of th inside that of u
RaceStdout(th, u) ==
    /\ th # u
    /\ ex[th].pc = "l154" /\ ex[u].pc = "l154" /\ ex[th].h = ex[u].h
    /\ handles' = [handles EXCEPT ![ex[th].h].stdout =
                      TornString(TrimSpace(ex[th].out), TrimSpace(ex[u].out))]
    /\ ex' = [ex EXCEPT ![th].pc = "l155", ![u].pc = "l155"]
    /\ UNCHANGED <<cfgs, heap, ret, runs, call>>

\* two stores into t.stderr at once, the store of th inside that of u; a call
\* at line 157 also stores the exit code of line 159
RaceStderr(th, u) ==
    /\ th # u
    /\ WritesStderr(ex[th]) /\ WritesStderr(ex[u]) /\ ex[th].h = ex[u].h
    /\ LET h == ex[th].h
           timeout == cfgs[handles[h].Cfg].Timeout
       IN  handles' = [handles EXCEPT
                          ![h].stderr = TornString(PendingStderr(ex[th], timeout),
                                                   PendingStderr(ex[u], timeout)),
                          ![h].exitCode = IF "l157" \in {ex[th].pc, ex[u].pc}
                                          THEN -1 ELSE @]
    /\ ex' = [ex EXCEPT ![th].pc = AfterLine(@), ![u].pc = AfterLine(@)]
    /\ UNCHANGED <<cfgs, heap, ret, runs, call>>

\* how a run's shell may exit and what it has written then
ConcProcs ==
    { [code |-> 0, out |-> <<"X">>, errb |-> <<>>],
      [code |-> 7, out |-> <<>>, errb |-> <<"E", "\n">>] }

InitConc ==
    /\ cfgs = << [Cmd |-> "a", Shell |-> "bash", Timeout |-> 1, Env |-> 1] >>
    /\ heap = (1 :> OsEnviron)
    /\ handles = << NewTs(1) >>
    /\ ret = 0
    /\ ex = [th \in Threads |-> Idle]
    /\ runs = <<0>>
    /\ call = [op |-> "none"]

NextConc ==
    \E th \in Threads :
        \/ ExecBegin(th, 1, TRUE)
        \/ Start(th)
        \/ \E p \in ConcProcs : ProcExit(th, p.code, p.out, p.errb)
        \/ DeadlineFire(th)
        \/ Kill(th, <<>>, <<>>)
        \/ DescendantsExit(th)
        \/ WaitReturn(th)
        \/ ExecErr(th)
        \/ ExecCode(th)
        \/ ExecStdout(th)
        \/ ExecStderr(th)
        \/ ExecTimeout(th)
        \/ \E u \in Threads : RaceStdout(th, u)
        \/ \E u \in Threads : RaceStderr(th, u)

SpecConc == InitConc /\ [][NextConc]_vars

-----------------------------------------------------------------------------
(* The configuration resolver alone: configs, handles that may share a     *)
(* config, and overlays                                                    *)

InitCfg ==
    /\ cfgs = <<>>
    /\ heap = <<>>
    /\ handles = <<>>
    /\ ret = 0
    /\ ex = [th \in Threads |-> Idle]
    /\ runs = <<>>
    /\ call = [op |-> "none"]

NextCfg ==
    \/ \E c \in UserConfigs : MakeConfig(c)
    \/ \E cmdStr \in CmdStrs, arg \in {NoArg, NilArg} \cup {PtrArg(c) : c \in DOMAIN cfgs} :
           New(cmdStr, arg)
    \/ \E h \in DOMAIN handles, m \in CfgOverlays :
           \E o \in Orders(DOMAIN m) : SetEnv(h, m, o)

SpecCfg == InitCfg /\ [][NextCfg]_vars

-----------------------------------------------------------------------------
(* One caller-built config, its command empty, passed to every New          *)

ShareCmds == {"", "a", "c"}

InitShare ==
    /\ cfgs = << [Cmd |-> "", Shell |-> "zsh", Timeout |-> 1, Env |-> 1] >>
    /\ heap = (1 :> << <<"A", "=", "1">> >>)
    /\ handles = <<>>
    /\ ret = 0
    /\ ex = [th \in Threads |-> Idle]
    /\ runs = <<>>
    /\ call = [op |-> "none"]

NextShare ==
    \/ \E cmdStr \in ShareCmds : New(cmdStr, PtrArg(1))
    \/ \E h \in DOMAIN handles, m \in SmallOverlays :
           \E o \in Orders(DOMAIN m) : SetEnv(h, m, o)
    \/ \E h \in DOMAIN handles : GetEnv(h)

SpecShare == InitShare /\ [][NextShare]_vars

-----------------------------------------------------------------------------
(* One handle's environment under every overlay of the pool: the handle is *)
(* New("a", cfg) for a caller-built cfg with Env = base                     *)

InitEnv ==
    /\ \E base \in BaseEnvs :
          /\ cfgs = << [Cmd |-> "a", Shell |-> "bash", Timeout |-> DefaultTimeout, Env |-> 1] >>
          /\ heap = (1 :> base)
    /\ handles = << NewTs(1) >>
    /\ ret = 0
    /\ ex = [th \in Threads |-> Idle]
    /\ runs = <<0>>
    /\ call = [op |-> "none"]

NextEnv ==
    \E m \in Overlays : \E o \in Orders(DOMAIN m) : SetEnv(1, m, o)

SpecEnv == InitEnv /\ [][NextEnv]_vars

-----------------------------------------------------------------------------
(* One handle's environment and the snapshots a caller takes of it and     *)
(* writes to                                                               *)

NextCopy ==
    \/ \E m \in SmallOverlays : \E o \in Orders(DOMAIN m) : SetEnv(1, m, o)
    \/ GetEnv(1)
    \/ \E i \in 1..MaxEnvLen, v \in WriteVals : CallerWrite(i, v)

SpecCopy == InitEnv /\ [][NextCopy]_vars

-----------------------------------------------------------------------------
(* Parse helpers: Lines, Fields, ToMap, lines 86-120.  They read Stdout()  *)
(* only; the result a caller gets is kept in the call record.              *)

MaxText == 3
MaxFields == 3

TextChars == {"a", "1", " ", "\n"}

\* what a subprocess may have written to stdout: every text of at most MaxText
\* characters, and some longer ones
SampleTexts ==
    { <<"a", " ", "1", "\n", "b", " ", "2", "\n", "a", " ", "9">>,
      <<"a", " ", "1", " ", "a", " ", "1", " ", "a", "\n", "1">>,
      <<"a", "\n", "\n", " ", "1">>,
      <<"a", " ", "\n", "1", "\t", "a", "\r", "\n", "1">> }

Texts == UNION {[1..n -> TextChars] : n \in 0..MaxText} \cup SampleTexts

\* strings.Split(s, sep) for a separator of one character
RECURSIVE Split(_, _)
Split(s, sep) ==
    LET at == {i \in 1..Len(s) : s[i] = sep}
    IN  IF at = {} THEN <<s>>
        ELSE LET i == SeqMin(at)
             IN  <<SubSeq(s, 1, i - 1)>> \o Split(SubSeq(s, i + 1, Len(s)), sep)

\* strings.Fields(s): the maximal runs of characters that are not white space
RECURSIVE StringsFields(_)
StringsFields(s) ==
    LET start == {i \in 1..Len(s) : s[i] \notin WhiteSpace}
    IN  IF start = {} THEN <<>>
        ELSE LET i == SeqMin(start)
                 stop == {j \in i..Len(s) : s[j] \in WhiteSpace}
                 j == IF stop = {} THEN Len(s) + 1 ELSE SeqMin(stop)
             IN  <<SubSeq(s, i, j - 1)>> \o StringsFields(SubSeq(s, j, Len(s)))

LinesResult_noEmptyCase(stdout) == Split(stdout, "\n")

\* Lines, lines 87-91
LinesResult(stdout) == IF stdout = <<>> THEN <<>> ELSE Split(stdout, "\n")

FieldsRow_padOnly(line, expectedLen) ==
    LET fields == StringsFields(line)
    IN  IF Len(fields) < expectedLen
        THEN fields \o [i \in 1..(expectedLen - Len(fields)) |-> <<>>]
        ELSE fields

\* Fields, lines 98-104: one line's tokens, padded or truncated
FieldsRow(line, expectedLen) ==
    LET fields == StringsFields(line)
    IN  IF Len(fields) < expectedLen
        THEN fields \o [i \in 1..(expectedLen - Len(fields)) |-> <<>>]
        ELSE IF Len(fields) > expectedLen
        THEN SubSeq(fields, 1, expectedLen)
        ELSE fields

\* Fields, lines 95-107
FieldsResult(stdout, expectedLen) ==
    LET lines == LinesResult(stdout)
    IN  [i \in DOMAIN lines |-> FieldsRow(lines[i], expectedLen)]

MapStore_keepFirst(data, field) ==
    IF Len(field) > 0 /\ field[1] \notin DOMAIN data
    THEN (field[1] :> Tail(field)) @@ data
    ELSE data

\* ToMap, lines 114-117: data[field[0]] = field[1:]
MapStore(data, field) ==
    IF Len(field) > 0 THEN (field[1] :> Tail(field)) @@ data ELSE data

\* ToMap, lines 113-118: the loop over the first i rows
RECURSIVE MapLoop(_, _)
MapLoop(fields, i) ==
    IF i = 0 THEN <<>> ELSE MapStore(MapLoop(fields, i - 1), fields[i])

\* ToMap, lines 110-120
ToMapResult(stdout, expectedLen) ==
    LET fields == FieldsResult(stdout, expectedLen)
    IN  MapLoop(fields, Len(fields))

Lines(h) ==
    /\ AllIdle
    /\ h \in DOMAIN handles
    /\ call' = [op |-> "Lines", h |-> h, res |-> LinesResult(Stdout(h))]
    /\ UNCHANGED <<cfgs, heap, handles, ret, ex, runs>>

Fields(h, expectedLen) ==
    /\ AllIdle
    /\ h \in DOMAIN handles
    /\ call' = [op |-> "Fields", h |-> h, n |-> expectedLen,
                res |-> FieldsResult(Stdout(h), expectedLen)]
    /\ UNCHANGED <<cfgs, heap, handles, ret, ex, runs>>

ToMap(h, expectedLen) ==
    /\ AllIdle
    /\ h \in DOMAIN handles
    /\ call' = [op |-> "ToMap", h |-> h, n |-> expectedLen,
                res |-> ToMapResult(Stdout(h), expectedLen)]
    /\ UNCHANGED <<cfgs, heap, handles, ret, ex, runs>>

\* one handle after an Exec that exited 0 having written a text of the pool
InitText ==
    /\ cfgs = << [Cmd |-> "a", Shell |-> "bash", Timeout |-> DefaultTimeout, Env |-> 1] >>
    /\ heap = (1 :> OsEnviron)
    /\ \E out \in Texts :
          handles = << [NewTs(1) EXCEPT !.stdout = TrimSpace(out)] >>
    /\ ret = 0
    /\ ex = [th \in Threads |-> Idle]
    /\ runs = <<1>>
    /\ call = [op |-> "none"]

NextText ==
    \/ Lines(1)
    \/ \E n \in 0..MaxFields : Fields(1, n)
    \/ \E n \in 0..MaxFields : ToMap(1, n)

SpecText == InitText /\ [][NextText]_vars

-----------------------------------------------------------------------------
(* Properties.  The helpers below state what the properties expect,        *)
(* independently of the operators the model computes with.                 *)

\* the key of an environment entry: the text before its first "="
KeyOf(e) ==
    IF \E i \in 1..Len(e) : e[i] = "="
    THEN SubSeq(e, 1, (CHOOSE i \in 1..Len(e) :
                          e[i] = "=" /\ \A j \in 1..(i - 1) : e[j] # "=") - 1)
    ELSE e

WellFormed(e) == \E i \in 1..Len(e) : e[i] = "="

Entry(k, v) == k \o <<"=">> \o v

Count(s, e) == Cardinality({i \in 1..Len(s) : s[i] = e})

SameBag(s, t) == \A e \in Range(s) \cup Range(t) : Count(s, e) = Count(t, e)

PlainKeys(m) == \A k \in DOMAIN m : \A i \in 1..Len(k) : k[i] # "="

UniqueKeys(env) ==
    \A i, j \in 1..Len(env) :
        (i # j /\ WellFormed(env[i]) /\ WellFormed(env[j])) => KeyOf(env[i]) # KeyOf(env[j])

\* the text of a timeout, for the timeouts of ExecConfigs
DurationText(d) ==
    CASE d = 0 -> <<"0", "s">>
      [] d = 1 -> <<"1", "s">>
      [] d = DefaultTimeout -> <<"1", "m", "0", "s">>

\* thread th has returned from an Exec call that passed the guard
Returned(th) == ex[th].pc = "done" /\ ex[th].ran

\* C1: once a handle's recorded exitCode is a genuine process code (neither 0
\* nor -1) and no Exec is in progress, every step (every later Exec call)
\* leaves stdout, stderr and exitCode as they were and starts no run.
C1_RerunGuard ==
    [][\A h \in DOMAIN handles :
          (AllIdle /\ handles[h].exitCode \notin {0, -1})
              => /\ handles'[h] = handles[h]
                 /\ runs'[h] = runs[h]
                 /\ \A th \in Threads : ex'[th].pc \in {"idle", "done"}
                                        /\ ex'[th].proc = "none"]_vars

\* C1 witness: the handle holds exit code 7 and a later Exec call on it has
\* returned without running
C1_Witness ==
    /\ handles[1].exitCode = 7
    /\ ex[1].pc = "done" /\ ~ex[1].ran /\ ex[1].h = 1
    /\ runs[1] >= 1

\* C2: when the deadline is found exceeded by an Exec, then after Exec returns
\* exitCode is -1 and stderr is the timeout message naming the configured
\* timeout, whatever the process produced.
C2_TimeoutOutcome ==
    \A th \in Threads :
        (Returned(th) /\ ex[th].ctx = "expired")
            => LET h == ex[th].h
                   text == DurationText(cfgs[handles[h].Cfg].Timeout)
               IN  /\ ExitCode(h) = -1
                   /\ Stderr(h) = TimeoutPrefix \o text \o <<".">>
                   /\ Contains(Stderr(h), text)

\* C2 witness: the process itself exited with code 7 and wrote to its error
\* stream, and the deadline was found exceeded
C2_Witness ==
    /\ Returned(1) /\ ex[1].ctx = "expired"
    /\ ex[1].proc = "exited" /\ ex[1].code = 7 /\ ex[1].errb # <<>>

\* C3: an Exec whose process writes "X" to stdout, nothing to stderr, and
\* exits 0 returns with Stdout() = "X", Stderr() = "" and ExitCode() = 0.
C3_SuccessOutcome ==
    \A th \in Threads :
        (/\ Returned(th)
         /\ ex[th].proc = "exited" /\ ex[th].code = 0
         /\ ex[th].out = <<"X">> /\ ex[th].errb = <<>>)
            => /\ Stdout(ex[th].h) = <<"X">>
               /\ Stderr(ex[th].h) = <<>>
               /\ ExitCode(ex[th].h) = 0

\* C4: after an Exec that failed without a timeout (the process could not be
\* created, or exited non-zero) with an empty captured error stream, Stderr()
\* is the run-time error's text and not empty; with exitCode -1 when the
\* process could not be created.
C4_RunFailureText ==
    \A th \in Threads :
        (/\ Returned(th) /\ ex[th].ctx # "expired"
         /\ ex[th].proc = "none" \/ (ex[th].proc = "exited" /\ ex[th].code # 0)
         /\ ex[th].errb = <<>>)
            => /\ Stderr(ex[th].h) # <<>>
               /\ Stderr(ex[th].h) = ex[th].err
               /\ ex[th].proc = "none" => ExitCode(ex[th].h) = -1

\* C5 as stated: after SetEnv(m), for every key k of m the environment holds
\* "k=m[k]" and no entry with key k that carries a value of the old
\* environment, and every well-formed old entry with a key outside m is kept.
C5_OverlayWins ==
    call.op = "SetEnv" =>
        LET env == StoredEnv(call.h)
            m == call.m
        IN  /\ \A k \in DOMAIN m : Entry(k, m[k]) \in Range(env)
            /\ \A k \in DOMAIN m : \A e \in Range(env) :
                  (KeyOf(e) = k /\ e # Entry(k, m[k])) => e \notin Range(call.base)
            /\ \A b \in Range(call.base) :
                  (WellFormed(b) /\ KeyOf(b) \notin DOMAIN m) => b \in Range(env)

\* C5 amended: after SetEnv(m) with a map none of whose keys holds "=", for
\* every key k of m the environment holds "k=m[k]" and no other entry with key
\* k, and every well-formed old entry with a key outside m is kept.
C5_OverlayWinsPlainKeys ==
    (call.op = "SetEnv" /\ PlainKeys(call.m)) =>
        LET env == StoredEnv(call.h)
            m == call.m
        IN  /\ \A k \in DOMAIN m : Entry(k, m[k]) \in Range(env)
            /\ \A k \in DOMAIN m : \A e \in Range(env) :
                  KeyOf(e) = k => e = Entry(k, m[k])
            /\ \A b \in Range(call.base) :
                  (WellFormed(b) /\ KeyOf(b) \notin DOMAIN m) => b \in Range(env)

\* C5 witness: base ["A=1","B=2"] overlaid with {A: 9}
C5_Witness ==
    /\ call.op = "SetEnv"
    /\ call.base = << <<"A", "=", "1">>, <<"B", "=", "2">> >>
    /\ call.m = [k \in {<<"A">>} |-> <<"9">>]
    /\ StoredEnv(1) = << <<"B", "=", "2">>, <<"A", "=", "9">> >>

\* C6 as stated: SetEnv(m) applied a second time leaves the environment the
\* same multiset of entries, each overlay key in exactly one entry.
C6_Idempotent ==
    (call.op = "SetEnv" /\ call.again) =>
        /\ SameBag(StoredEnv(call.h), call.base)
        /\ \A k \in DOMAIN call.m :
              Count(StoredEnv(call.h), Entry(k, call.m[k])) = 1

\* C6 amended: the same, for maps none of whose keys holds "=".
C6_IdempotentPlainKeys ==
    (call.op = "SetEnv" /\ call.again /\ PlainKeys(call.m)) =>
        /\ SameBag(StoredEnv(call.h), call.base)
        /\ \A k \in DOMAIN call.m :
              Count(StoredEnv(call.h), Entry(k, call.m[k])) = 1

\* C6 witness: {A: 9} applied twice to an environment that also holds B=2
C6_Witness ==
    /\ call.op = "SetEnv" /\ call.again
    /\ call.m = [k \in {<<"A">>} |-> <<"9">>]
    /\ StoredEnv(1) = << <<"B", "=", "2">>, <<"A", "=", "9">> >>

\* C7 as stated: after any SetEnv no two entries of the environment have the
\* same key.
C7_UniqueKeys ==
    call.op = "SetEnv" =>
        \A i, j \in 1..Len(StoredEnv(call.h)) :
            i # j => KeyOf(StoredEnv(call.h)[i]) # KeyOf(StoredEnv(call.h)[j])

\* C7 amended: after a SetEnv whose map has no key holding "=", on an
\* environment whose well-formed entries have pairwise distinct keys, no two
\* entries of the environment have the same key.
C7_UniqueKeysKept ==
    (call.op = "SetEnv" /\ PlainKeys(call.m) /\ UniqueKeys(call.base)) =>
        \A i, j \in 1..Len(StoredEnv(call.h)) :
            i # j => KeyOf(StoredEnv(call.h)[i]) # KeyOf(StoredEnv(call.h)[j])

\* C7 witness: an overlay that replaces one key and adds another, on an
\* environment with distinct keys
C7_Witness ==
    /\ call.op = "SetEnv" /\ PlainKeys(call.m) /\ UniqueKeys(call.base)
    /\ Cardinality(DOMAIN call.m) = 2
    /\ \E b \in Range(call.base) : WellFormed(b) /\ KeyOf(b) \in DOMAIN call.m
    /\ Len(StoredEnv(1)) = 3

\* C8: whatever the caller writes into the slice GetEnv returned, the stored
\* environment of every handle is what it was before the writes.
C8_DefensiveCopy ==
    call.op = "Write" => \A h \in DOMAIN handles : StoredEnv(h) = call.before[h]

\* C8 witness: the caller has overwritten an element of the returned slice,
\* which now differs from the stored environment
C8_Witness ==
    /\ call.op = "Write"
    /\ ret # 0
    /\ Len(StoredEnv(1)) > 0
    /\ heap[ret] # StoredEnv(1)

\* C9: New without a config or with a nil config gives the defaults (shell
\* "bash", timeout 60s, the process environment) and command cmdStr; with a
\* config whose command is empty the command becomes cmdStr; with a config
\* whose command is not empty that command is kept; the handle is constructed
\* in every case, with zero-valued results.
C9_CommandResolution ==
    call.op = "New" =>
        /\ call.h \in DOMAIN handles
        /\ LET t == handles[call.h]
               cfg == cfgs[t.Cfg]
           IN  /\ t.stdout = <<>> /\ t.stderr = <<>> /\ t.exitCode = 0
               /\ call.arg.kind \in {"absent", "nil"} =>
                     /\ cfg.Shell = "bash"
                     /\ cfg.Timeout = DefaultTimeout
                     /\ heap[cfg.Env] = OsEnviron
                     /\ cfg.Cmd = call.cmdStr
               /\ (call.arg.kind = "ptr" /\ call.argCmd = "") =>
                     /\ t.Cfg = call.arg.id
                     /\ cfg.Cmd = call.cmdStr
               /\ (call.arg.kind = "ptr" /\ call.argCmd # "") =>
                     /\ t.Cfg = call.arg.id
                     /\ cfg.Cmd = call.argCmd

\* C9 witness: New("a", cfg) with cfg.Cmd = "b" keeps "b"
C9_Witness ==
    /\ call.op = "New"
    /\ call.arg.kind = "ptr" /\ call.argCmd = "b" /\ call.cmdStr = "a"
    /\ cfgs[handles[call.h].Cfg].Cmd = "b"

\* C10: an Exec call runs the command if and only if the handle's exitCode at
\* entry is 0 or -1.
C10_RerunPolicy ==
    [][\A th \in Threads :
          (ex[th].pc \in {"idle", "done"} /\ ex'[th] # ex[th])
              => ((ex'[th].pc = "run" /\ ex'[th].ran /\ runs'[ex'[th].h] = runs[ex'[th].h] + 1)
                     <=> handles[ex'[th].h].exitCode \in {0, -1})]_vars

\* C10 witness: a handle whose first run timed out is being run a second time
C10_Witness ==
    /\ ex[1].pc = "run" /\ ex[1].proc = "running"
    /\ runs[1] = 2
    /\ handles[1].exitCode = -1
    /\ handles[1].stderr = TimeoutPrefix \o <<"1", "s", ".">>

\* strings.Join(parts, sep)
RECURSIVE Join(_, _)
Join(parts, sep) ==
    IF Len(parts) = 0 THEN <<>>
    ELSE IF Len(parts) = 1 THEN parts[1]
    ELSE parts[1] \o <<sep>> \o Join(Tail(parts), sep)

Trimmed(s) == s = <<>> \/ (s[1] \notin WhiteSpace /\ s[Len(s)] \notin WhiteSpace)

\* the tokens of a line: its maximal runs of characters that are not white
\* space, as pairs <<first, last>> of positions
TokenRuns(line) ==
    {r \in (1..Len(line)) \X (1..Len(line)) :
        /\ r[1] <= r[2]
        /\ \A i \in r[1]..r[2] : line[i] \notin WhiteSpace
        /\ r[1] = 1 \/ line[r[1] - 1] \in WhiteSpace
        /\ r[2] = Len(line) \/ line[r[2] + 1] \in WhiteSpace}

\* the m-th token of a line, for m at most the number of its tokens
Token(line, m) ==
    LET r == CHOOSE r \in TokenRuns(line) :
                 Cardinality({q \in TokenRuns(line) : q[1] < r[1]}) = m - 1
    IN  SubSeq(line, r[1], r[2])

\* C11 as stated: no element of Lines() is empty or has leading or trailing
\* white space, and for empty Stdout() the result has length 0.
C11_LinesTrimmed ==
    call.op = "Lines" =>
        /\ \A i \in DOMAIN call.res : call.res[i] # <<>> /\ Trimmed(call.res[i])
        /\ Stdout(call.h) = <<>> => Len(call.res) = 0

\* C11 amended: Lines() is Stdout() cut at every "\n": for empty Stdout() the
\* result has length 0; otherwise the elements hold no "\n" and joined by "\n"
\* they are Stdout(), the first element is not empty and has no leading white
\* space, and the last is not empty and has no trailing white space.
C11_LinesSplit ==
    call.op = "Lines" =>
        LET res == call.res
            out == Stdout(call.h)
        IN  /\ out = <<>> => Len(res) = 0
            /\ out # <<>> =>
                  /\ Len(res) >= 1
                  /\ Join(res, "\n") = out
                  /\ \A i \in DOMAIN res : "\n" \notin Range(res[i])
                  /\ res[1] # <<>> /\ res[1][1] \notin WhiteSpace
                  /\ res[Len(res)] # <<>>
                  /\ res[Len(res)][Len(res[Len(res)])] \notin WhiteSpace

\* C11 witness: Lines() of a stdout with a blank line and an indented line
C11_Witness ==
    /\ call.op = "Lines"
    /\ Stdout(1) = <<"a", "\n", "\n", " ", "1">>
    /\ call.res = << <<"a">>, <<>>, <<" ", "1">> >>

\* C12: Fields(n) has one row per line of Lines(), and every row has exactly n
\* entries: the line's first min(n, k) tokens in order (k the number of tokens
\* of the line), followed by n - k empty strings when k < n.
C12_FieldsShape ==
    call.op = "Fields" =>
        LET lines == LinesResult(Stdout(call.h))
            n == call.n
        IN  /\ Len(call.res) = Len(lines)
            /\ \A i \in DOMAIN call.res :
                  LET row == call.res[i]
                      k == Cardinality(TokenRuns(lines[i]))
                  IN  /\ Len(row) = n
                      /\ \A m \in 1..n :
                            row[m] = IF m <= k THEN Token(lines[i], m) ELSE <<>>

\* C12 witness: Fields(3) of a line of five tokens and a line of one token
C12_Witness ==
    /\ call.op = "Fields" /\ call.n = 3
    /\ Stdout(1) = <<"a", " ", "1", " ", "a", " ", "1", " ", "a", "\n", "1">>
    /\ call.res = << << <<"a">>, <<"1">>, <<"a">> >>, << <<"1">>, <<>>, <<>> >> >>

\* C13: ToMap(n) maps the first entry of each row of Fields(n) to the row's
\* remaining n - 1 entries, the last row with that first entry being the one
\* kept; every value of the map has length n - 1.  (Rows of Fields(0) have no
\* entries, and ToMap(0) is the empty map.)
C13_ToMapLastWins ==
    call.op = "ToMap" =>
        LET rows == FieldsResult(Stdout(call.h), call.n)
            keyed == {i \in DOMAIN rows : Len(rows[i]) > 0}
        IN  /\ DOMAIN call.res = {rows[i][1] : i \in keyed}
            /\ \A i \in keyed :
                  (\A j \in keyed : (j > i) => rows[j][1] # rows[i][1])
                      => call.res[rows[i][1]] = SubSeq(rows[i], 2, Len(rows[i]))
            /\ \A k \in DOMAIN call.res : Len(call.res[k]) = call.n - 1

\* C13 witness: ToMap(2) of the lines "a 1", "b 2", "a 9"
C13_Witness ==
    /\ call.op = "ToMap" /\ call.n = 2
    /\ Stdout(1) = <<"a", " ", "1", "\n", "b", " ", "2", "\n", "a", " ", "9">>
    /\ call.res = (<<"a">> :> << <<"9">> >>) @@ (<<"b">> :> << <<"2">> >>)

\* C14: when the shell terminated on its own while the deadline had not
\* fired, the Exec does not record the timeout outcome (exitCode -1 with the
\* timeout message), whatever the deadline does afterwards.
C14_TimeoutOnlyIfDeadlineEndedWait ==
    \A th \in Threads :
        (Returned(th) /\ ex[th].proc = "exited" /\ ex[th].early)
            => ~(/\ ExitCode(ex[th].h) = -1
                 /\ Stderr(ex[th].h) =
                        TimeoutPrefix
                            \o DurationText(cfgs[handles[ex[th].h].Cfg].Timeout) \o <<".">>)

\* C15: after an Exec in which the deadline was not exceeded, exitCode is the
\* exit code of the process if it exited, and -1 if it never started or was
\* terminated by a signal.
C15_ExitCodeRecorded ==
    \A th \in Threads :
        (Returned(th) /\ ex[th].ctx # "expired")
            => ExitCode(ex[th].h) =
                   CASE ex[th].proc = "exited" -> ex[th].code
                     [] ex[th].proc = "signaled" -> -1
                     [] ex[th].proc = "none" -> -1

\* C15 witness: the process was terminated by a signal before the deadline
C15_Witness ==
    /\ Returned(1) /\ ex[1].ctx = "live"
    /\ ex[1].proc = "signaled"
    /\ ExitCode(1) = -1

\* C18: an Exec that passed the guard leaves stdout, stderr and exitCode with
\* values of that run only: the trimmed captures and the run's code, or the
\* timeout outcome when the deadline was found exceeded.
C18_NoStaleOutput ==
    \A th \in Threads :
        Returned(th) =>
            LET h == ex[th].h
            IN  /\ Stdout(h) = TrimSpace(ex[th].out)
                /\ ex[th].ctx # "expired" =>
                      /\ Stderr(h) = TrimSpace(ex[th].errb)
                      /\ ExitCode(h) = IF ex[th].proc = "exited" THEN ex[th].code ELSE -1
                /\ ex[th].ctx = "expired" =>
                      /\ Stderr(h) = TimeoutPrefix
                                        \o DurationText(cfgs[handles[h].Cfg].Timeout)
                                        \o <<".">>
                      /\ ExitCode(h) = -1

\* C18 witness: the handle held a timeout outcome when the call began, and the
\* re-run exited 0 within the deadline, having written "E\n" to stderr
C18_Witness ==
    /\ Returned(1) /\ ex[1].ctx = "live"
    /\ ex[1].entry.exitCode = -1
    /\ ex[1].entry.stderr = TimeoutPrefix \o <<"1", "s", ".">>
    /\ ex[1].proc = "exited" /\ ex[1].code = 0 /\ ex[1].errb = <<"E", "\n">>
    /\ Stderr(1) = <<"E">> /\ ExitCode(1) = 0

\* C19 as stated: between sequential calls, a handle whose stderr is the
\* timeout message of its configuration has exitCode -1.
C19_TimeoutMessageCode ==
    \A h \in DOMAIN handles :
        (AllIdle /\ Stderr(h) = TimeoutPrefix
                                   \o DurationText(cfgs[handles[h].Cfg].Timeout) \o <<".">>)
            => ExitCode(h) = -1

\* C19 amended: when an Exec that passed the guard returns with stderr the
\* timeout message, exitCode is -1, unless that text is the run's own
\* captured error stream.
C19_SynthesizedMessageCode ==
    \A th \in Threads :
        (Returned(th)
         /\ Stderr(ex[th].h) = TimeoutPrefix
                                  \o DurationText(cfgs[handles[ex[th].h].Cfg].Timeout)
                                  \o <<".">>)
            => \/ ExitCode(ex[th].h) = -1
               \/ /\ ex[th].ctx # "expired"
                  /\ ex[th].errb = Stderr(ex[th].h)

\* C19 witness: a run that exited 7 and was found to have exceeded the
\* deadline, after a SetEnv on the handle
C19_Witness ==
    /\ Returned(1) /\ ex[1].ctx = "expired"
    /\ ex[1].proc = "exited" /\ ex[1].code = 7
    /\ Len(StoredEnv(1)) = 2
    /\ Stderr(1) = TimeoutPrefix \o <<"1", "s", ".">>
    /\ ExitCode(1) = -1

\* C16: under fair scheduling every Exec call that has begun to run its
\* command eventually returns.
C16_ExecReturns ==
    \A th \in Threads : (ex[th].pc = "run") ~> (ex[th].pc = "done")

\* C17: no call on a handle keeps another out: a call that begins while
\* another call on the same handle is in progress passes the guard exactly
\* when the exitCode it reads is 0 or -1, and then starts a run of its own.
C17_NoIsolation ==
    [][\A th, u \in Threads :
          (/\ th # u
           /\ ex[th].pc \in {"idle", "done"} /\ ex'[th] # ex[th]
           /\ ex[u].pc \notin {"idle", "done"} /\ ex[u].h = ex'[th].h)
              => ((ex'[th].pc = "run" /\ ex'[th].ran)
                     <=> handles[ex'[th].h].exitCode \in {0, -1})]_vars

\* C17 witness: two calls that ran at the same time have both returned, and
\* the handle holds the stdout of the first run with the exit code of the
\* second, a triple that neither run produced
C17_Witness ==
    /\ Returned(1) /\ Returned(2)
    /\ ex[1].h = 1 /\ ex[2].h = 1
    /\ ex[1].entry.exitCode = 0 /\ ex[2].entry.exitCode = 0
    /\ ex[1].ctx = "live" /\ ex[2].ctx = "live"
    /\ ex[1].out = <<"X">> /\ ex[1].code = 0 /\ ex[1].proc = "exited"
    /\ ex[2].out = <<>> /\ ex[2].code = 7 /\ ex[2].proc = "exited"
    /\ Stdout(1) = <<"X">> /\ ExitCode(1) = 7

\* the command and the environment a handle runs with, read through the handle
CmdOf(h) == cfgs[handles[h].Cfg].Cmd
EnvOf(h) == heap[cfgs[handles[h].Cfg].Env]

\* C20: every handle made by New(c, cfg) from one config object holds that
\* object: New writes the resolved command into it, a later New(c2, cfg)
\* finds the command of the first and keeps it, all handles show one command,
\* and after SetEnv(m) on one handle every handle's environment, and what
\* GetEnv returns on any of them, holds the entries of m.
C20_SharedConfig ==
    /\ \A g, h \in DOMAIN handles : handles[g].Cfg = handles[h].Cfg
    /\ call.op = "New" =>
          /\ \A g \in DOMAIN handles : CmdOf(g) = CmdOf(call.h)
          /\ cfgs[call.arg.id].Cmd = CmdOf(call.h)
          /\ call.argCmd = "" => CmdOf(call.h) = call.cmdStr
          /\ call.argCmd # "" => CmdOf(call.h) = call.argCmd
    /\ call.op = "SetEnv" =>
          \A g \in DOMAIN handles : \A k \in DOMAIN call.m :
              Entry(k, call.m[k]) \in Range(EnvOf(g))
    /\ call.op = "GetEnv" =>
          \A g \in DOMAIN handles : heap[ret] = EnvOf(g)

\* C20 witness: New("a", cfg) and New("c", cfg) were called, both handles
\* show the command "a", and SetEnv({A: 9}) on the first handle has changed
\* the environment of the second
C20_Witness ==
    /\ Len(handles) = 2
    /\ CmdOf(1) = "a" /\ CmdOf(2) = "a"
    /\ call.op = "SetEnv" /\ call.h = 1
    /\ call.m = [k \in {<<"A">>} |-> <<"9">>]
    /\ call.base = << <<"A", "=", "1">> >>
    /\ EnvOf(2) = << <<"A", "=", "9">> >>

=============================================================================
